---- MODULE Spec2Model ----
(***************************************************************************)
(* Watch-and-Sort: the exactly-once dispatch engine of sorter/watcher.py,  *)
(* with the matcher (sorter/matcher.py) and the namer (sorter/renamer.py). *)
(*                                                                         *)
(* Two threads of control run the handlers: the observer's dispatch thread *)
(* ("event": on_created / on_modified) and the key-listener thread         *)
(* ("scan": manual_scan).  Every statement that touches shared state (a    *)
(* handler's lock, its processed_files, its manual_scan_in_progress flag,  *)
(* the destination directory) is one step, so every interleaving the two   *)
(* threads can produce is a behaviour of Spec.                             *)
(***************************************************************************)
EXTENDS Integers, Sequences, FiniteSets, TLC

\* ------------------------------------------------------------------------
\* Bounds of the model (not program constants)
\* ------------------------------------------------------------------------
MaxCopyFailures == 1
NumSizes == 2
MaxNameLen == 3
MaxRules == 2

\* ------------------------------------------------------------------------
\* Strings are tuples of one-character strings
\* ------------------------------------------------------------------------
Upper == <<"X", "Q", "Y", "Z", "M">>
Lower == <<"x", "q", "y", "z", "m">>

\* str.lower() on one character
LowerChar(c) ==
  IF \E i \in 1..Len(Upper) : Upper[i] = c
  THEN Lower[CHOOSE i \in 1..Len(Upper) : Upper[i] = c]
  ELSE c

\* str.lower()
ToLower(s) == [i \in 1..Len(s) |-> LowerChar(s[i])]

\* str.startswith
StartsWith(s, pre) ==
  /\ Len(pre) <= Len(s)
  /\ SubSeq(s, 1, Len(pre)) = pre

\* str.endswith
EndsWith(s, suf) ==
  /\ Len(suf) <= Len(s)
  /\ SubSeq(s, Len(s) - Len(suf) + 1, Len(s)) = suf

\* `sub in s`
Contains(s, sub) ==
  \E i \in 0..(Len(s) - Len(sub)) : SubSeq(s, i + 1, i + Len(sub)) = sub

\* ------------------------------------------------------------------------
\* The file system the program runs on
\* ------------------------------------------------------------------------
DirA == <<"/", "a">>
DirB == <<"/", "b">>
DirZ == <<"/", "z">>
NoSource == <<>>
DestA == <<"/", "d", "a">>
DestB == <<"/", "d", "b">>

\* directories that exist (os.path.isdir)
Dirs == {DirA, DirB}
DestDirs == {DestA, DestB}

PA1 == [dir |-> DirA, name |-> <<"X", "1", ".", "m">>]
PA2 == [dir |-> DirA, name |-> <<"x", "2", ".", "m">>]
PA3 == [dir |-> DirA, name |-> <<"z", ".", "m">>]
PB1 == [dir |-> DirB, name |-> <<"Q", ".", "m">>]
PB2 == [dir |-> DirB, name |-> <<"y", ".", "p", "a", "r", "t">>]
PB3 == [dir |-> DirB, name |-> <<"y", ".", "!", "q", "b">>]
PB4 == [dir |-> DirB,
        name |-> <<"y", ".", "c", "r", "d", "o", "w", "n", "l", "o", "a", "d">>]
Paths == {PA1, PA2, PA3, PB1, PB2, PB3, PB4}
NoPath == [dir |-> <<>>, name |-> <<>>]

\* files whose writer has finished: readable, size constant and positive
Stable == {PA1, PA2, PA3}

\* os.path.join(source, filename), already absolute and normalised
PathStr(p) == p.dir \o <<"/">> \o p.name

\* os.listdir(source) restricted to regular files
ListDir(fs, source) == {p \in fs : p.dir = source}

\* os.path.splitext(filename)[1]
SplitExt(name) ==
  LET dots == {i \in 2..Len(name) : name[i] = "."}
  IN IF dots = {} THEN <<>>
     ELSE LET k == CHOOSE i \in dots : \A j \in dots : j <= i
          IN SubSeq(name, k, Len(name))

\* ------------------------------------------------------------------------
\* Rules (rules.json as returned by load_rules)
\* ------------------------------------------------------------------------
FmtEp == [title |-> "T", season |-> TRUE, episode |-> TRUE]

RuleA ==
  [source |-> DirA, match_keywords |-> << <<"x">> >>, hasDest |-> TRUE,
   destination |-> DestA, rename_format |-> FmtEp, season |-> 1]
RuleB ==
  [source |-> DirB, match_keywords |-> << >>, hasDest |-> TRUE,
   destination |-> DestB, rename_format |-> FmtEp, season |-> 2]
RuleNoDest ==
  [source |-> DirA, match_keywords |-> << >>, hasDest |-> FALSE,
   destination |-> <<>>, rename_format |-> FmtEp, season |-> 1]
RuleBadSource ==
  [source |-> DirZ, match_keywords |-> << >>, hasDest |-> TRUE,
   destination |-> DestA, rename_format |-> FmtEp, season |-> 1]
RuleNoSource ==
  [source |-> NoSource, match_keywords |-> << >>, hasDest |-> TRUE,
   destination |-> DestA, rename_format |-> FmtEp, season |-> 1]

\* the configurations and source-directory contents the program is run on:
\* the files there at start and those that are created while it runs
Scenarios ==
  { [rules |-> <<RuleA, RuleB>>, files |-> {PA1, PA2}, late |-> {}],
    [rules |-> <<RuleA, RuleB>>, files |-> {PA1, PB2}, late |-> {}],
    [rules |-> <<RuleA, RuleB>>, files |-> {PB3, PB4}, late |-> {}],
    [rules |-> <<RuleA, RuleB>>, files |-> {}, late |-> {PA1}],
    [rules |-> <<RuleNoDest, RuleA, RuleB>>, files |-> {PA1}, late |-> {}],
    [rules |-> <<RuleBadSource, RuleNoSource, RuleA, RuleB>>,
     files |-> {PA3, PB1}, late |-> {}] }

\* a rule start_watching's loop accepts (lines 205-212)
ValidRule(r) ==
  /\ r.source # NoSource
  /\ r.source \in Dirs
  /\ r.hasDest

\* ------------------------------------------------------------------------
\* sorter/matcher.py
\* ------------------------------------------------------------------------
\* variant of RuleMatches: any() in place of all()
RuleMatches_Any(r, fname_lower) ==
  \E k \in 1..Len(r.match_keywords) :
     Contains(fname_lower, ToLower(r.match_keywords[k]))

\* line 4: all(keyword.lower() in fname_lower for keyword in ...)
RuleMatches(r, fname_lower) ==
  \A k \in 1..Len(r.match_keywords) :
     Contains(fname_lower, ToLower(r.match_keywords[k]))

NoRule == [source |-> NoSource, match_keywords |-> << >>, hasDest |-> FALSE,
           destination |-> <<>>, rename_format |-> FmtEp, season |-> 0]

find_matching_rule(filename, rs) ==
  LET fname_lower == ToLower(filename)
      hits == {i \in 1..Len(rs) : RuleMatches(rs[i], fname_lower)}
  IN IF hits = {} THEN NoRule
     ELSE rs[CHOOSE i \in hits : \A j \in hits : i <= j]

\* before any call of find_matching_rule
MatchStart == [filename |-> << >>, rules |-> << >>, result |-> NoRule]

\* ------------------------------------------------------------------------
\* sorter/renamer.py
\* ------------------------------------------------------------------------
\* a destination directory is the set of the names of its regular files
\* variant of get_next_episode_number: the count itself once files exist
get_next_episode_number_NoIncrement(files) ==
  IF files = {} THEN 1 ELSE Cardinality(files)

get_next_episode_number(files) == Cardinality(files) + 1

\* variant of generate_new_filename: format(season=season, episode=season)
generate_new_filename_SeasonTwice(original_filename, r, season, episode) ==
  [title |-> r.rename_format.title,
   season |-> IF r.rename_format.season THEN season ELSE 0,
   episode |-> IF r.rename_format.episode THEN season ELSE 0,
   ext |-> SplitExt(original_filename)]

\* lines 14-17: fmt.format(season=season, episode=episode) + ext
generate_new_filename(original_filename, r, season, episode) ==
  [title |-> r.rename_format.title,
   season |-> IF r.rename_format.season THEN season ELSE 0,
   episode |-> IF r.rename_format.episode THEN episode ELSE 0,
   ext |-> SplitExt(original_filename)]

\* ------------------------------------------------------------------------
\* start_watching: one SortHandler per accepted source
\* ------------------------------------------------------------------------
\* the rule list a handler is constructed with (line 215)
SourceRules(rs, source) == SelectSeq(rs, LAMBDA r : r.source = source)

RECURSIVE BuildHandlers(_, _, _)
\* the loop of lines 204-220: the sources that get a handler, in dict order
BuildHandlers(rs, i, acc) ==
  IF i > Len(rs) THEN acc
  ELSE LET r == rs[i]
       IN IF r.source = NoSource \/ r.source \notin Dirs
          THEN BuildHandlers(rs, i + 1, acc)
          ELSE IF ~r.hasDest
          THEN BuildHandlers(rs, i + 1, acc)
          ELSE IF \E k \in 1..Len(acc) : acc[k] = r.source
          THEN BuildHandlers(rs, i + 1, acc)
          ELSE BuildHandlers(rs, i + 1, Append(acc, r.source))

\* ------------------------------------------------------------------------
\* wait_for_file_complete (lines 41-52)
\* ------------------------------------------------------------------------
\* the default of `retries`
Retries == 10

\* the sizes os.path.getsize can report
Sizes == {0} \cup {100 * k : k \in 1..NumSizes}

\* variant of SizeStable: the `current_size > 0` conjunct is missing
SizeStable_ZeroOk(previous_size, current_size) ==
  current_size = previous_size

\* line 48
SizeStable(previous_size, current_size) ==
  current_size = previous_size /\ current_size > 0

\* lines 95 and 99 before the first iteration of either loop: the attempts
\* of wait_for_file_accessible made so far, then wait_for_file_complete's
\* locals (line 42)
ProbeStart ==
  [opens |-> 0, attempt |-> 0, previous_size |-> -1, result |-> "opening",
   samples |-> << >>, vanished |-> FALSE]

\* ------------------------------------------------------------------------
\* State
\* ------------------------------------------------------------------------
Threads == {"event", "scan"}

VARIABLES
  mt,           \* find_matching_rule's last call, run on its own (SpecMatch)
  late,         \* files a downloader has still to create in a source directory
  probe,        \* wait_for_file_complete's loop, run on its own (SpecProbe)
  rules,        \* the list load_rules returned
  files,        \* the regular files in the source directories
  handlers,     \* start_watching's `handlers` dict: its keys, in insertion order
  processed,    \* SortHandler.processed_files, per handler
  flag,         \* SortHandler.manual_scan_in_progress, per handler
  lock,         \* SortHandler.lock, per handler: "free" or the holding thread
  dest,         \* the file names in each destination directory
  pc,           \* where each thread is
  cur,          \* the path a thread is handling
  kind,         \* the live event being handled: "created", "modified", "none"
  rule,         \* process_file's local `rule`
  newName,      \* process_file's local `new_name`
  sIdx,         \* manual_scan: position in handlers
  sFiles,       \* manual_scan: entries of files_in_directory still to visit
  sRaised,      \* manual_scan: an exception is propagating
  nFail,        \* copy failures injected so far
  \* history variables
  overlapped,   \* the handlers that have had two process_file calls at once
  named,        \* per path: "never" handled, only "dropped" by live handlers
                \* that read the flag as true, or "called" (handed to
                \* process_file or picked by a scan)
  copies,       \* completed copy operations per path
  procBy,       \* Processed outcomes per path and thread
  out,          \* outcome of a thread's current or last handle call
  known,        \* the path was in processed when the thread's call began
  flagSeen,     \* the flag value the event thread read at lines 136/147
  copyFailed,   \* paths a copy of which has failed
  cntRead,      \* the destination file count a thread read at line 111
  clobber       \* "none", or how a destination file got overwritten

vars == <<mt, late, probe, rules, files, handlers, processed, flag, lock, dest, pc, cur, kind, rule,
          newName, sIdx, sFiles, sRaised, nFail, overlapped, named, copies, procBy,
          out, known, flagSeen, copyFailed, cntRead, clobber>>

progVars == <<mt, late, probe, rules, files, handlers, processed, flag, lock, dest, pc, cur, kind,
              rule, newName, sIdx, sFiles, sRaised, nFail>>
histVars == <<overlapped, named, copies, procBy, out, known, flagSeen, copyFailed, cntRead, clobber>>

NoName == [title |-> "", season |-> 0, episode |-> 0, ext |-> <<>>]

\* the steps of process_file after the duplicate check
Dispatching == {"pf_probe", "pf_match", "pf_count",
                "pf_copy", "pf_add_lock", "pf_add"}
\* the steps in which a thread holds a handler's lock
InLock == {"ev_flag", "pf_check", "pf_add", "s_set", "s_chk", "s_fin"}

\* thread t is inside process_file, for handler h
InCall(t, h) ==
  /\ pc[t] \in {"pf_lock", "pf_check"} \cup Dispatching
  /\ cur[t].dir = h

\* the handler (its source directory) a thread's current path belongs to
HandlerOf(t) == cur[t].dir

\* self.rules of a handler
HandlerRules(source) == SourceRules(rules, source)

Init ==
  /\ mt = MatchStart
  /\ probe = ProbeStart
  /\ \E sc \in Scenarios :
        rules = sc.rules /\ files = sc.files /\ late = sc.late
  /\ handlers = << >>
  /\ processed = [d \in Dirs |-> {}]
  /\ flag = [d \in Dirs |-> FALSE]
  /\ lock = [d \in Dirs |-> "free"]
  /\ dest = [d \in DestDirs |-> {}]
  /\ pc = [t \in Threads |-> "off"]
  /\ cur = [t \in Threads |-> NoPath]
  /\ kind = "none"
  /\ rule = [t \in Threads |-> NoRule]
  /\ newName = [t \in Threads |-> NoName]
  /\ sIdx = 0
  /\ sFiles = {}
  /\ sRaised = FALSE
  /\ nFail = 0
  /\ overlapped = {}
  /\ named = [p \in Paths |-> "never"]
  /\ copies = [p \in Paths |-> 0]
  /\ procBy = [p \in Paths |-> [t \in Threads |-> 0]]
  /\ out = [t \in Threads |-> "none"]
  /\ known = [t \in Threads |-> FALSE]
  /\ flagSeen = FALSE
  /\ copyFailed = {}
  /\ cntRead = [t \in Threads |-> 0]
  /\ clobber = "none"

\* observer.start() and key_thread.start() (lines 200-222, 294-295)
StartWatching ==
  /\ pc["event"] = "off"
  /\ handlers' = BuildHandlers(rules, 1, << >>)
  /\ pc' = [t \in Threads |-> "idle"]
  /\ UNCHANGED <<mt, late, probe, rules, files, processed, flag, lock, dest, cur, kind, rule, newName,
                 sIdx, sFiles, sRaised, nFail>>
  /\ UNCHANGED histVars

\* a downloader creates p in its source directory
CreateFile(p) ==
  /\ p \in late
  /\ late' = late \ {p}
  /\ files' = files \cup {p}
  /\ UNCHANGED <<mt, probe, rules, handlers, processed, flag, lock, dest, pc, cur,
                 kind, rule, newName, sIdx, sFiles, sRaised, nFail>>
  /\ UNCHANGED histVars

Watched(p) ==
  /\ p \in files
  /\ \E k \in 1..Len(handlers) : handlers[k] = p.dir

\* where process_file returns to
Ret(t) == IF t = "event" THEN "idle" ELSE "s_file"

\* ------------------------------------------------------------------------
\* Live events: SortHandler.on_created / on_modified (event thread)
\* ------------------------------------------------------------------------
\* the observer delivers a "created" event for p to p's handler
OnCreated(p) ==
  /\ pc["event"] = "idle"
  /\ Watched(p)
  /\ pc' = [pc EXCEPT !["event"] = "ev_lock"]
  /\ cur' = [cur EXCEPT !["event"] = p]
  /\ kind' = "created"
  /\ out' = [out EXCEPT !["event"] = "pending"]
  /\ known' = [known EXCEPT !["event"] = (p \in processed[p.dir])]
  /\ UNCHANGED <<mt, late, probe, rules, files, handlers, processed, flag, lock, dest, rule, newName,
                 sIdx, sFiles, sRaised, nFail>>
  /\ UNCHANGED <<overlapped, named, copies, procBy, flagSeen,
                 copyFailed, cntRead, clobber>>

\* the observer delivers a "modified" event for p to p's handler
OnModified(p) ==
  /\ pc["event"] = "idle"
  /\ Watched(p)
  /\ pc' = [pc EXCEPT !["event"] = "ev_lock"]
  /\ cur' = [cur EXCEPT !["event"] = p]
  /\ kind' = "modified"
  /\ out' = [out EXCEPT !["event"] = "pending"]
  /\ known' = [known EXCEPT !["event"] = (p \in processed[p.dir])]
  /\ UNCHANGED <<mt, late, probe, rules, files, handlers, processed, flag, lock, dest, rule, newName,
                 sIdx, sFiles, sRaised, nFail>>
  /\ UNCHANGED <<overlapped, named, copies, procBy, flagSeen,
                 copyFailed, cntRead, clobber>>

\* `with self.lock:` of lines 135 / 146
EvAcquire ==
  /\ pc["event"] = "ev_lock"
  /\ lock[HandlerOf("event")] = "free"
  /\ lock' = [lock EXCEPT ![HandlerOf("event")] = "event"]
  /\ pc' = [pc EXCEPT !["event"] = "ev_flag"]
  /\ UNCHANGED <<mt, late, probe, rules, files, handlers, processed, flag, dest, cur, kind, rule,
                 newName, sIdx, sFiles, sRaised, nFail>>
  /\ UNCHANGED histVars

\* variant of ScanInProgress: the handler does not look at the flag
ScanInProgress_Ignored(h) == FALSE

\* lines 136 / 147: `if self.manual_scan_in_progress`
ScanInProgress(h) == flag[h]

\* variant of AfterSkip: the `return` is missing and the handler goes on to
\* process_file
AfterSkip_FallsThrough == "pf_lock"

\* lines 137 / 148: `return`
AfterSkip == "done"

\* lines 136-139 / 147-153: `if self.manual_scan_in_progress: return`, the
\* lock is released, then process_file is entered (on_modified's unlocked
\* read of processed_files at line 151 only chooses what is printed)
EvFlagCheck(k) ==
  LET h == HandlerOf("event")
      p == cur["event"]
  IN /\ pc["event"] = "ev_flag"
     /\ kind = k
     /\ lock' = [lock EXCEPT ![h] = "free"]
     /\ flagSeen' = flag[h]
     /\ kind' = "none"
     /\ named' = [named EXCEPT ![p] = IF ~flag[h] THEN "called"
                                      ELSE IF @ = "never" THEN "dropped"
                                      ELSE @]
     /\ IF ScanInProgress(h)
        THEN /\ pc' = [pc EXCEPT !["event"] = AfterSkip]
             /\ out' = [out EXCEPT !["event"] = "scan-in-progress"]
             /\ overlapped' = overlapped
        ELSE /\ pc' = [pc EXCEPT !["event"] = "pf_lock"]
             /\ out' = out
             /\ overlapped' = IF InCall("scan", h) THEN overlapped \cup {h}
                               ELSE overlapped
     /\ UNCHANGED <<mt, late, probe, rules, files, handlers, processed, flag, dest, cur, rule,
                    newName, sIdx, sFiles, sRaised, nFail>>
     /\ UNCHANGED <<copies, procBy, known, copyFailed, cntRead,
                    clobber>>

OnCreatedCheck == EvFlagCheck("created")
OnModifiedCheck == EvFlagCheck("modified")

\* ------------------------------------------------------------------------
\* SortHandler.process_file, run by either thread
\* ------------------------------------------------------------------------
TempSuffixes == { <<".", "p", "a", "r", "t">>, <<".", "!", "q", "b">>,
                  <<".", "c", "r", "d", "o", "w", "n", "l", "o", "a", "d">> }

\* variant of IsTemp: the suffix test of line 91 is missing
IsTemp_Never(filename) == FALSE

\* line 91: filename.endswith((".part", ".!qb", ".crdownload"))
IsTemp(filename) == \E suf \in TempSuffixes : EndsWith(filename, suf)

\* `with self.lock:` of line 84
PfAcquire(t) ==
  /\ pc[t] = "pf_lock"
  /\ lock[HandlerOf(t)] = "free"
  /\ lock' = [lock EXCEPT ![HandlerOf(t)] = t]
  /\ pc' = [pc EXCEPT ![t] = "pf_check"]
  /\ UNCHANGED <<mt, late, probe, rules, files, handlers, processed, flag, dest, cur, kind, rule,
                 newName, sIdx, sFiles, sRaised, nFail>>
  /\ UNCHANGED histVars

\* variant of AlreadyProcessed: the membership test is missing
AlreadyProcessed_Never(h, p) == FALSE

\* line 85: `if filepath in self.processed_files`
AlreadyProcessed(h, p) == p \in processed[h]

\* variant of PfCheck: the path is inserted at the check, before the copy
PfCheck_InsertEarly(t) ==
  LET h == HandlerOf(t)
      p == cur[t]
  IN /\ pc[t] = "pf_check"
     /\ lock' = [lock EXCEPT ![h] = "free"]
     /\ IF AlreadyProcessed(h, p)
        THEN /\ pc' = [pc EXCEPT ![t] = "done"]
             /\ out' = [out EXCEPT ![t] = "duplicate"]
             /\ processed' = processed
        ELSE IF IsTemp(p.name)
        THEN /\ pc' = [pc EXCEPT ![t] = "done"]
             /\ out' = [out EXCEPT ![t] = "temp"]
             /\ processed' = processed
        ELSE /\ pc' = [pc EXCEPT ![t] = "pf_probe"]
             /\ out' = out
             /\ processed' = [processed EXCEPT ![h] = @ \cup {p}]
     /\ UNCHANGED <<mt, late, probe, rules, files, handlers, flag, dest, cur, kind, rule,
                    newName, sIdx, sFiles, sRaised, nFail>>
     /\ UNCHANGED <<overlapped, named, copies, procBy, known, flagSeen, copyFailed, cntRead,
                    clobber>>

\* variant of PfCheck: the whole body of process_file is inside the
\* `with self.lock:` block, so the lock is kept when the call goes on
PfCheck_LockAcrossProbe(t) ==
  LET h == HandlerOf(t)
      p == cur[t]
  IN /\ pc[t] = "pf_check"
     /\ IF AlreadyProcessed(h, p)
        THEN /\ pc' = [pc EXCEPT ![t] = "done"]
             /\ out' = [out EXCEPT ![t] = "duplicate"]
             /\ lock' = [lock EXCEPT ![h] = "free"]
        ELSE IF IsTemp(p.name)
        THEN /\ pc' = [pc EXCEPT ![t] = "done"]
             /\ out' = [out EXCEPT ![t] = "temp"]
             /\ lock' = [lock EXCEPT ![h] = "free"]
        ELSE /\ pc' = [pc EXCEPT ![t] = "pf_probe"]
             /\ out' = out
             /\ lock' = lock
     /\ UNCHANGED <<mt, late, probe, rules, files, handlers, processed, flag, dest, cur, kind, rule,
                    newName, sIdx, sFiles, sRaised, nFail>>
     /\ UNCHANGED <<overlapped, named, copies, procBy, known, flagSeen, copyFailed, cntRead, clobber>>

\* variant of PfCheck: acquire() and release() in place of `with`, and the
\* early return for a duplicate leaves without release()
PfCheck_ReturnHoldsLock(t) ==
  LET h == HandlerOf(t)
      p == cur[t]
  IN /\ pc[t] = "pf_check"
     /\ IF AlreadyProcessed(h, p)
        THEN /\ pc' = [pc EXCEPT ![t] = "done"]
             /\ out' = [out EXCEPT ![t] = "duplicate"]
             /\ lock' = lock
        ELSE IF IsTemp(p.name)
        THEN /\ pc' = [pc EXCEPT ![t] = "done"]
             /\ out' = [out EXCEPT ![t] = "temp"]
             /\ lock' = [lock EXCEPT ![h] = "free"]
        ELSE /\ pc' = [pc EXCEPT ![t] = "pf_probe"]
             /\ out' = out
             /\ lock' = [lock EXCEPT ![h] = "free"]
     /\ UNCHANGED <<mt, late, probe, rules, files, handlers, processed, flag, dest, cur, kind, rule,
                    newName, sIdx, sFiles, sRaised, nFail>>
     /\ UNCHANGED <<overlapped, named, copies, procBy, known, flagSeen, copyFailed, cntRead, clobber>>

\* lines 85-93: the duplicate check under the lock, then the temporary-suffix
\* check
PfCheck(t) ==
  LET h == HandlerOf(t)
      p == cur[t]
  IN /\ pc[t] = "pf_check"
     /\ lock' = [lock EXCEPT ![h] = "free"]
     /\ IF AlreadyProcessed(h, p)
        THEN /\ pc' = [pc EXCEPT ![t] = "done"]
             /\ out' = [out EXCEPT ![t] = "duplicate"]
        ELSE IF IsTemp(p.name)
        THEN /\ pc' = [pc EXCEPT ![t] = "done"]
             /\ out' = [out EXCEPT ![t] = "temp"]
        ELSE /\ pc' = [pc EXCEPT ![t] = "pf_probe"]
             /\ out' = out
     /\ UNCHANGED <<mt, late, probe, rules, files, handlers, processed, flag, dest, cur, kind, rule,
                    newName, sIdx, sFiles, sRaised, nFail>>
     /\ UNCHANGED <<overlapped, named, copies, procBy, known, flagSeen, copyFailed, cntRead, clobber>>

\* what wait_for_file_accessible / wait_for_file_complete can return for p
ProbeResults(p) == IF p \in Stable THEN {TRUE} ELSE {TRUE, FALSE}

\* lines 95-101: wait_for_file_accessible, then wait_for_file_complete
PfProbe(t) ==
  /\ pc[t] = "pf_probe"
  /\ \E accessible \in ProbeResults(cur[t]), complete \in ProbeResults(cur[t]) :
       IF ~accessible
       THEN /\ pc' = [pc EXCEPT ![t] = "done"]
            /\ out' = [out EXCEPT ![t] = "locked"]
       ELSE IF ~complete
       THEN /\ pc' = [pc EXCEPT ![t] = "done"]
            /\ out' = [out EXCEPT ![t] = "not-ready"]
       ELSE /\ pc' = [pc EXCEPT ![t] = "pf_match"]
            /\ out' = out
  /\ UNCHANGED <<mt, late, probe, rules, files, handlers, processed, flag, lock, dest, cur, kind,
                 rule, newName, sIdx, sFiles, sRaised, nFail>>
  /\ UNCHANGED <<overlapped, named, copies, procBy, known, flagSeen, copyFailed, cntRead, clobber>>

\* variant of PfMatch: a file no rule matches is put in processed_files, so
\* that it is not looked at again
PfMatch_MarksUnmatched(t) ==
  LET p == cur[t]
      r == find_matching_rule(p.name, HandlerRules(HandlerOf(t)))
  IN /\ pc[t] = "pf_match"
     /\ IF r = NoRule \/ ~StartsWith(PathStr(p), r.source)
        THEN /\ pc' = [pc EXCEPT ![t] = "done"]
             /\ out' = [out EXCEPT ![t] = "no-rule"]
             /\ rule' = rule
             /\ processed' = [processed EXCEPT ![HandlerOf(t)] = @ \cup {p}]
        ELSE IF ~r.hasDest
        THEN /\ pc' = [pc EXCEPT ![t] = "done"]
             /\ out' = [out EXCEPT ![t] = "error"]
             /\ rule' = rule
             /\ processed' = processed
        ELSE /\ pc' = [pc EXCEPT ![t] = "pf_count"]
             /\ out' = out
             /\ rule' = [rule EXCEPT ![t] = r]
             /\ processed' = processed
     /\ UNCHANGED <<mt, late, probe, rules, files, handlers, flag, lock, dest, cur, kind,
                    newName, sIdx, sFiles, sRaised, nFail>>
     /\ UNCHANGED <<overlapped, named, copies, procBy, known, flagSeen, copyFailed, cntRead, clobber>>

\* lines 103-107 and 124-130: the matcher, the source-prefix test and
\* rule["destination"], which raises KeyError when the key is missing
PfMatch(t) ==
  LET p == cur[t]
      r == find_matching_rule(p.name, HandlerRules(HandlerOf(t)))
  IN /\ pc[t] = "pf_match"
     /\ IF r = NoRule \/ ~StartsWith(PathStr(p), r.source)
        THEN /\ pc' = [pc EXCEPT ![t] = "done"]
             /\ out' = [out EXCEPT ![t] = "no-rule"]
             /\ rule' = rule
        ELSE IF ~r.hasDest
        THEN /\ pc' = [pc EXCEPT ![t] = "done"]
             /\ out' = [out EXCEPT ![t] = "error"]
             /\ rule' = rule
        ELSE /\ pc' = [pc EXCEPT ![t] = "pf_count"]
             /\ out' = out
             /\ rule' = [rule EXCEPT ![t] = r]
     /\ UNCHANGED <<mt, late, probe, rules, files, handlers, processed, flag, lock, dest, cur, kind,
                    newName, sIdx, sFiles, sRaised, nFail>>
     /\ UNCHANGED <<overlapped, named, copies, procBy, known, flagSeen, copyFailed, cntRead, clobber>>

\* lines 108-115: makedirs, the episode number from the destination's file
\* count, the new name
PfCount(t) ==
  LET r == rule[t]
      season_num == r.season
      episode_num == get_next_episode_number(dest[r.destination])
  IN /\ pc[t] = "pf_count"
     /\ newName' = [newName EXCEPT
                      ![t] = generate_new_filename(cur[t].name, r, season_num,
                                                   episode_num)]
     /\ cntRead' = [cntRead EXCEPT ![t] = Cardinality(dest[r.destination])]
     /\ pc' = [pc EXCEPT ![t] = "pf_copy"]
     /\ UNCHANGED <<mt, late, probe, rules, files, handlers, processed, flag, lock, dest, cur, kind,
                    rule, sIdx, sFiles, sRaised, nFail>>
     /\ UNCHANGED <<overlapped, named, copies, procBy, out, known, flagSeen, copyFailed, clobber>>

\* open(dst, "wb"): the destination directory has a file named n (a new
\* one, or the old one truncated and rewritten)
WriteFile(fs, n) == fs \cup {n}

\* how a write that replaces an existing file came about: the writer's count
\* was still current ("fresh") or the directory had changed since ("raced")
ClobberOf(t, fs) ==
  IF newName[t] \in fs
  THEN IF cntRead[t] = Cardinality(fs) \/ clobber = "fresh"
       THEN "fresh"
       ELSE "raced"
  ELSE clobber

\* line 117, copy_with_progress returns
PfCopyOk(t) ==
  LET d == rule[t].destination
  IN /\ pc[t] = "pf_copy"
     /\ dest' = [dest EXCEPT ![d] = WriteFile(dest[d], newName[t])]
     /\ clobber' = ClobberOf(t, dest[d])
     /\ copies' = [copies EXCEPT ![cur[t]] = @ + 1]
     /\ pc' = [pc EXCEPT ![t] = "pf_add_lock"]
     /\ UNCHANGED <<mt, late, probe, rules, files, handlers, processed, flag, lock, cur, kind, rule,
                    newName, sIdx, sFiles, sRaised, nFail>>
     /\ UNCHANGED <<overlapped, named, procBy, out, known, flagSeen,
                    copyFailed, cntRead>>

\* variant of PfCopyFail: the path is marked processed although the copy
\* failed
PfCopyFail_MarksProcessed(t) ==
  LET d == rule[t].destination
  IN /\ pc[t] = "pf_copy"
     /\ nFail < MaxCopyFailures
     /\ nFail' = nFail + 1
     /\ \E opened \in BOOLEAN :
          IF opened
          THEN /\ dest' = [dest EXCEPT
                             ![d] = WriteFile(dest[d], newName[t])]
               /\ clobber' = ClobberOf(t, dest[d])
          ELSE /\ dest' = dest
               /\ clobber' = clobber
     /\ copyFailed' = copyFailed \cup {cur[t]}
     /\ out' = [out EXCEPT ![t] = "error"]
     /\ pc' = [pc EXCEPT ![t] = "done"]
     /\ processed' = [processed EXCEPT ![HandlerOf(t)] = @ \cup {cur[t]}]
     /\ UNCHANGED <<mt, late, probe, rules, files, handlers, flag, lock, cur, kind, rule,
                    newName, sIdx, sFiles, sRaised>>
     /\ UNCHANGED <<overlapped, named, copies, procBy, known, flagSeen, cntRead>>

\* line 117 raises (OSError in copy_with_progress), caught at lines 128-130:
\* before the destination was opened, or after some bytes were written
PfCopyFail(t) ==
  LET d == rule[t].destination
  IN /\ pc[t] = "pf_copy"
     /\ nFail < MaxCopyFailures
     /\ nFail' = nFail + 1
     /\ \E opened \in BOOLEAN :
          IF opened
          THEN /\ dest' = [dest EXCEPT
                             ![d] = WriteFile(dest[d], newName[t])]
               /\ clobber' = ClobberOf(t, dest[d])
          ELSE /\ dest' = dest
               /\ clobber' = clobber
     /\ copyFailed' = copyFailed \cup {cur[t]}
     /\ out' = [out EXCEPT ![t] = "error"]
     /\ pc' = [pc EXCEPT ![t] = "done"]
     /\ UNCHANGED <<mt, late, probe, rules, files, handlers, processed, flag, lock, cur, kind, rule,
                    newName, sIdx, sFiles, sRaised>>
     /\ UNCHANGED <<overlapped, named, copies, procBy, known, flagSeen, cntRead>>

\* `with self.lock:` of line 121
PfAddAcquire(t) ==
  /\ pc[t] = "pf_add_lock"
  /\ lock[HandlerOf(t)] = "free"
  /\ lock' = [lock EXCEPT ![HandlerOf(t)] = t]
  /\ pc' = [pc EXCEPT ![t] = "pf_add"]
  /\ UNCHANGED <<mt, late, probe, rules, files, handlers, processed, flag, dest, cur, kind, rule,
                 newName, sIdx, sFiles, sRaised, nFail>>
  /\ UNCHANGED histVars

\* lines 122-123
PfAdd(t) ==
  LET h == HandlerOf(t)
      p == cur[t]
  IN /\ pc[t] = "pf_add"
     /\ processed' = [processed EXCEPT ![h] = @ \cup {p}]
     /\ lock' = [lock EXCEPT ![h] = "free"]
     /\ pc' = [pc EXCEPT ![t] = "done"]
     /\ out' = [out EXCEPT ![t] = "processed"]
     /\ procBy' = [procBy EXCEPT ![p][t] = @ + 1]
     /\ UNCHANGED <<mt, late, probe, rules, files, handlers, flag, dest, cur, kind, rule, newName,
                    sIdx, sFiles, sRaised, nFail>>
     /\ UNCHANGED <<overlapped, named, copies, known, flagSeen, copyFailed,
                    cntRead, clobber>>

\* the handler (event thread) or process_file (scan thread, lines 259-263)
\* has returned: the call's locals are gone
Finish(t) ==
  /\ pc[t] = "done"
  /\ pc' = [pc EXCEPT ![t] = Ret(t)]
  /\ cur' = [cur EXCEPT ![t] = NoPath]
  /\ rule' = [rule EXCEPT ![t] = NoRule]
  /\ newName' = [newName EXCEPT ![t] = NoName]
  /\ out' = [out EXCEPT ![t] = "none"]
  /\ known' = [known EXCEPT ![t] = FALSE]
  /\ cntRead' = [cntRead EXCEPT ![t] = 0]
  /\ flagSeen' = IF t = "event" THEN FALSE ELSE flagSeen
  /\ UNCHANGED <<mt, late, probe, rules, files, handlers, processed, flag, lock, dest, kind,
                 sIdx, sFiles, sRaised, nFail>>
  /\ UNCHANGED <<overlapped, named, copies, procBy, copyFailed, clobber>>

\* ------------------------------------------------------------------------
\* manual_scan, run by the key-listener thread (listen_for_key)
\* ------------------------------------------------------------------------
\* ENTER is read (line 281) and manual_scan is called
ScanStart ==
  /\ pc["scan"] = "idle"
  /\ sIdx' = 1
  /\ sRaised' = FALSE
  /\ pc' = [pc EXCEPT !["scan"] =
              IF Len(handlers) = 0 THEN "s_dir" ELSE "s_set_lock"]
  /\ UNCHANGED <<mt, late, probe, rules, files, handlers, processed, flag, lock, dest, cur, kind,
                 rule, newName, sFiles, nFail>>
  /\ UNCHANGED histVars

\* `with handler.lock:` of line 232
ScanSetAcquire ==
  /\ pc["scan"] = "s_set_lock"
  /\ lock[handlers[sIdx]] = "free"
  /\ lock' = [lock EXCEPT ![handlers[sIdx]] = "scan"]
  /\ pc' = [pc EXCEPT !["scan"] = "s_set"]
  /\ UNCHANGED <<mt, late, probe, rules, files, handlers, processed, flag, dest, cur, kind, rule,
                 newName, sIdx, sFiles, sRaised, nFail>>
  /\ UNCHANGED histVars

\* variant of ScanSetFlag: the flag is set for the first handler only
ScanSetFlag_OnlyFirst ==
  /\ pc["scan"] = "s_set"
  /\ flag' = [flag EXCEPT ![handlers[sIdx]] = TRUE]
  /\ lock' = [lock EXCEPT ![handlers[sIdx]] = "free"]
  /\ sIdx' = 1
  /\ pc' = [pc EXCEPT !["scan"] = "s_dir"]
  /\ UNCHANGED <<mt, late, probe, rules, files, handlers, processed, dest, cur, kind, rule, newName,
                 sFiles, sRaised, nFail>>
  /\ UNCHANGED histVars

\* line 233, and the next iteration of the loop of line 231
ScanSetFlag ==
  /\ pc["scan"] = "s_set"
  /\ flag' = [flag EXCEPT ![handlers[sIdx]] = TRUE]
  /\ lock' = [lock EXCEPT ![handlers[sIdx]] = "free"]
  /\ IF sIdx < Len(handlers)
     THEN /\ sIdx' = sIdx + 1
          /\ pc' = [pc EXCEPT !["scan"] = "s_set_lock"]
     ELSE /\ sIdx' = 1
          /\ pc' = [pc EXCEPT !["scan"] = "s_dir"]
  /\ UNCHANGED <<mt, late, probe, rules, files, handlers, processed, dest, cur, kind, rule, newName,
                 sFiles, sRaised, nFail>>
  /\ UNCHANGED histVars

\* variant of ToFinally: the flags are reset after the try block, not in a
\* finally clause, and not at all
ToFinally_Skipped == "s_end"

\* where control goes when the try block of lines 235-265 is left
ToFinally == IF Len(handlers) = 0 THEN "s_end" ELSE "s_fin_lock"

\* lines 236-243: the next source directory is enumerated
ScanListDir ==
  /\ pc["scan"] = "s_dir"
  /\ IF sIdx > Len(handlers)
     THEN /\ pc' = [pc EXCEPT !["scan"] = ToFinally]
          /\ sIdx' = 1
          /\ sFiles' = {}
     ELSE /\ pc' = [pc EXCEPT !["scan"] = "s_file"]
          /\ sIdx' = sIdx
          /\ sFiles' = ListDir(files, handlers[sIdx])
  /\ UNCHANGED <<mt, late, probe, rules, files, handlers, processed, flag, lock, dest, cur, kind,
                 rule, newName, sRaised, nFail>>
  /\ UNCHANGED histVars

\* line 242: os.listdir raises (the directory went away after line 237)
ScanListDirRaises ==
  /\ pc["scan"] = "s_dir"
  /\ sIdx <= Len(handlers)
  /\ sRaised' = TRUE
  /\ sIdx' = 1
  /\ sFiles' = {}
  /\ pc' = [pc EXCEPT !["scan"] = ToFinally]
  /\ UNCHANGED <<mt, late, probe, rules, files, handlers, processed, flag, lock, dest, cur, kind,
                 rule, newName, nFail>>
  /\ UNCHANGED histVars

\* lines 245-251: the next entry of files_in_directory (os.listdir gives them
\* in arbitrary order), or the end of the directory
ScanNextFile ==
  /\ pc["scan"] = "s_file"
  /\ IF sFiles = {}
     THEN /\ pc' = [pc EXCEPT !["scan"] = "s_dir"]
          /\ sIdx' = sIdx + 1
          /\ UNCHANGED <<sFiles, cur, out, known, named>>
     ELSE \E p \in sFiles :
            /\ sFiles' = sFiles \ {p}
            /\ cur' = [cur EXCEPT !["scan"] = p]
            /\ out' = [out EXCEPT !["scan"] = "pending"]
            /\ known' = [known EXCEPT !["scan"] = (p \in processed[p.dir])]
            /\ named' = [named EXCEPT ![p] = "called"]
            /\ pc' = [pc EXCEPT !["scan"] = "s_chk_lock"]
            /\ sIdx' = sIdx
  /\ UNCHANGED <<mt, late, probe, rules, files, handlers, processed, flag, lock, dest, kind, rule,
                 newName, sRaised, nFail>>
  /\ UNCHANGED <<overlapped, copies, procBy, flagSeen,
                 copyFailed, cntRead, clobber>>

\* line 248: print of a file name the console cannot encode raises; the
\* exception leaves the loop for the finally block
ScanFileRaises ==
  /\ pc["scan"] = "s_file"
  /\ sFiles # {}
  /\ sRaised' = TRUE
  /\ sIdx' = 1
  /\ sFiles' = {}
  /\ pc' = [pc EXCEPT !["scan"] = ToFinally]
  /\ UNCHANGED <<mt, late, probe, rules, files, handlers, processed, flag, lock, dest, cur, kind,
                 rule, newName, nFail>>
  /\ UNCHANGED histVars

\* `with handler.lock:` of line 252
ScanChkAcquire ==
  /\ pc["scan"] = "s_chk_lock"
  /\ lock[HandlerOf("scan")] = "free"
  /\ lock' = [lock EXCEPT ![HandlerOf("scan")] = "scan"]
  /\ pc' = [pc EXCEPT !["scan"] = "s_chk"]
  /\ UNCHANGED <<mt, late, probe, rules, files, handlers, processed, flag, dest, cur, kind, rule,
                 newName, sIdx, sFiles, sRaised, nFail>>
  /\ UNCHANGED histVars

\* variant of ScanChk: the scan goes through the live handler's flag test
\* before process_file
ScanChk_HonoursFlag ==
  LET h == HandlerOf("scan")
  IN /\ pc["scan"] = "s_chk"
     /\ lock' = [lock EXCEPT ![h] = "free"]
     /\ IF cur["scan"] \in processed[h]
        THEN /\ pc' = [pc EXCEPT !["scan"] = "done"]
             /\ out' = [out EXCEPT !["scan"] = "duplicate"]
             /\ overlapped' = overlapped
        ELSE IF ScanInProgress(h)
        THEN /\ pc' = [pc EXCEPT !["scan"] = "done"]
             /\ out' = [out EXCEPT !["scan"] = "scan-in-progress"]
             /\ overlapped' = overlapped
        ELSE /\ pc' = [pc EXCEPT !["scan"] = "pf_lock"]
             /\ out' = out
             /\ overlapped' = IF InCall("event", h) THEN overlapped \cup {h}
                               ELSE overlapped
     /\ UNCHANGED <<mt, late, probe, rules, files, handlers, processed, flag, dest, cur, kind, rule,
                    newName, sIdx, sFiles, sRaised, nFail>>
     /\ UNCHANGED <<named, copies, procBy, known, flagSeen, copyFailed, cntRead, clobber>>

\* lines 253-259: already processed -> skipped, else process_file is called
ScanChk ==
  LET h == HandlerOf("scan")
  IN /\ pc["scan"] = "s_chk"
     /\ lock' = [lock EXCEPT ![h] = "free"]
     /\ IF cur["scan"] \in processed[h]
        THEN /\ pc' = [pc EXCEPT !["scan"] = "done"]
             /\ out' = [out EXCEPT !["scan"] = "duplicate"]
             /\ overlapped' = overlapped
        ELSE /\ pc' = [pc EXCEPT !["scan"] = "pf_lock"]
             /\ out' = out
             /\ overlapped' = IF InCall("event", h) THEN overlapped \cup {h}
                               ELSE overlapped
     /\ UNCHANGED <<mt, late, probe, rules, files, handlers, processed, flag, dest, cur, kind, rule,
                    newName, sIdx, sFiles, sRaised, nFail>>
     /\ UNCHANGED <<named, copies, procBy, known, flagSeen, copyFailed, cntRead, clobber>>

\* `with handler.lock:` of line 270
ScanFinAcquire ==
  /\ pc["scan"] = "s_fin_lock"
  /\ lock[handlers[sIdx]] = "free"
  /\ lock' = [lock EXCEPT ![handlers[sIdx]] = "scan"]
  /\ pc' = [pc EXCEPT !["scan"] = "s_fin"]
  /\ UNCHANGED <<mt, late, probe, rules, files, handlers, processed, flag, dest, cur, kind, rule,
                 newName, sIdx, sFiles, sRaised, nFail>>
  /\ UNCHANGED histVars

\* line 271, and the next iteration of the loop of line 269
ScanResetFlag ==
  /\ pc["scan"] = "s_fin"
  /\ flag' = [flag EXCEPT ![handlers[sIdx]] = FALSE]
  /\ lock' = [lock EXCEPT ![handlers[sIdx]] = "free"]
  /\ IF sIdx < Len(handlers)
     THEN /\ sIdx' = sIdx + 1
          /\ pc' = [pc EXCEPT !["scan"] = "s_fin_lock"]
     ELSE /\ sIdx' = 0
          /\ pc' = [pc EXCEPT !["scan"] = "s_end"]
  /\ UNCHANGED <<mt, late, probe, rules, files, handlers, processed, dest, cur, kind, rule, newName,
                 sFiles, sRaised, nFail>>
  /\ UNCHANGED histVars

\* manual_scan is left: it returns to listen_for_key's loop (lines 283-288),
\* or its exception, which line 289 does not catch, ends the thread
ScanEnd ==
  /\ pc["scan"] = "s_end"
  /\ pc' = [pc EXCEPT !["scan"] = IF sRaised THEN "dead" ELSE "idle"]
  /\ UNCHANGED <<mt, late, probe, rules, files, handlers, processed, flag, lock, dest, cur, kind,
                 rule, newName, sIdx, sFiles, sRaised, nFail>>
  /\ UNCHANGED histVars

\* ------------------------------------------------------------------------
\* wait_for_file_accessible and wait_for_file_complete, one iteration of a
\* loop per step
\* ------------------------------------------------------------------------
\* lines 33-35: open(filepath, "rb") succeeds, wait_for_file_accessible
\* returns True (its loop counter is gone) and wait_for_file_complete is
\* entered
ProbeOpenOk ==
  /\ probe.result = "opening"
  /\ probe.opens < Retries
  /\ probe' = [probe EXCEPT !.opens = 0, !.result = "running"]
  /\ UNCHANGED <<mt, late, rules, files, handlers, processed, flag, lock, dest, pc, cur,
                 kind, rule, newName, sIdx, sFiles, sRaised, nFail>>
  /\ UNCHANGED histVars

\* variant of ProbeOpenFails: `while True` in place of `for _ in
\* range(retries)`
ProbeOpenFails_NoLimit ==
  /\ probe.result = "opening"
  /\ probe' = [probe EXCEPT !.opens = @ + 1]
  /\ UNCHANGED <<mt, late, rules, files, handlers, processed, flag, lock, dest, pc, cur,
                 kind, rule, newName, sIdx, sFiles, sRaised, nFail>>
  /\ UNCHANGED histVars

\* lines 36-38: open raises PermissionError or IOError, the loop sleeps and
\* goes on; after the last attempt the function returns False
ProbeOpenFails ==
  /\ probe.result = "opening"
  /\ probe.opens < Retries
  /\ probe' = [probe EXCEPT !.opens = @ + 1,
                            !.result = IF probe.opens + 1 = Retries
                                       THEN "locked" ELSE "opening"]
  /\ UNCHANGED <<mt, late, rules, files, handlers, processed, flag, lock, dest, pc, cur,
                 kind, rule, newName, sIdx, sFiles, sRaised, nFail>>
  /\ UNCHANGED histVars

\* lines 43-52: os.path.getsize returns size
ProbeSample(size) ==
  /\ probe.result = "running"
  /\ probe.attempt < Retries
  /\ probe' =
       IF SizeStable(probe.previous_size, size)
       THEN [probe EXCEPT !.result = "ready",
                          !.samples = Append(@, size),
                          !.attempt = @ + 1]
       ELSE [probe EXCEPT !.previous_size = size,
                          !.samples = Append(@, size),
                          !.attempt = @ + 1,
                          !.result = IF probe.attempt + 1 = Retries
                                     THEN "not-ready" ELSE "running"]
  /\ UNCHANGED <<mt, late, rules, files, handlers, processed, flag, lock, dest, pc, cur,
                 kind, rule, newName, sIdx, sFiles, sRaised, nFail>>
  /\ UNCHANGED histVars

\* lines 46-47: os.path.getsize raises FileNotFoundError
ProbeVanished ==
  /\ probe.result = "running"
  /\ probe.attempt < Retries
  /\ probe' = [probe EXCEPT !.result = "not-ready", !.vanished = TRUE,
                            !.attempt = @ + 1]
  /\ UNCHANGED <<mt, late, rules, files, handlers, processed, flag, lock, dest, pc, cur,
                 kind, rule, newName, sIdx, sFiles, sRaised, nFail>>
  /\ UNCHANGED histVars

NextProbe ==
  \/ ProbeOpenOk
  \/ ProbeOpenFails
  \/ \E size \in Sizes : ProbeSample(size)
  \/ ProbeVanished

InitProbe ==
  /\ Init
  /\ files = {PA1, PA2}

SpecProbe == InitProbe /\ [][NextProbe]_vars

\* the polling thread keeps running: time.sleep returns and the loop goes on
SpecProbeFair == SpecProbe /\ WF_vars(NextProbe)

\* ------------------------------------------------------------------------
\* find_matching_rule, called on its own
\* ------------------------------------------------------------------------
\* file names of up to MaxNameLen characters
NameChars == {"x", "X", "y"}
FileNames == UNION {[1..n -> NameChars] : n \in 0..MaxNameLen}

\* match_keywords lists, with keywords in either case
KeywordLists ==
  { << >>, << <<"x">> >>, << <<"X">> >>, << <<"y">> >>, << <<"x", "y">> >>,
    << <<"x">>, <<"y">> >>, << <<"Y">>, <<"x", "x">> >> }

\* the i-th rule of a list has a destination of its own
RuleDests == << <<"/", "d", "1">>, <<"/", "d", "2">>, <<"/", "d", "3">> >>
MatchRule(kws, i) ==
  [source |-> DirA, match_keywords |-> kws, hasDest |-> TRUE,
   destination |-> RuleDests[i], rename_format |-> FmtEp, season |-> 1]
RuleLists ==
  UNION { { [i \in 1..n |-> MatchRule(ks[i], i)] : ks \in [1..n -> KeywordLists] }
          : n \in 0..MaxRules }

\* find_matching_rule(filename, rs) is called and returns; the function keeps
\* no state, so one call per behaviour covers every call
MatchCall(filename, rs) ==
  /\ mt = MatchStart
  /\ mt' = [filename |-> filename, rules |-> rs,
            result |-> find_matching_rule(filename, rs)]
  /\ UNCHANGED <<late, probe, rules, files, handlers, processed, flag, lock, dest, pc,
                 cur, kind, rule, newName, sIdx, sFiles, sRaised, nFail>>
  /\ UNCHANGED histVars

NextMatch ==
  /\ mt = MatchStart
  /\ \E filename \in FileNames, rs \in RuleLists : MatchCall(filename, rs)

SpecMatch == InitProbe /\ [][NextMatch]_vars

\* ------------------------------------------------------------------------
\* The program
\* ------------------------------------------------------------------------
ProcessFile(t) ==
  \/ PfAcquire(t)
  \/ PfCheck(t)
  \/ PfProbe(t)
  \/ PfMatch(t)
  \/ PfCount(t)
  \/ PfCopyOk(t)
  \/ PfCopyFail(t)
  \/ PfAddAcquire(t)
  \/ PfAdd(t)
  \/ Finish(t)

Next ==
  \/ StartWatching
  \/ \E p \in Paths : CreateFile(p)
  \/ \E p \in Paths : OnCreated(p)
  \/ \E p \in Paths : OnModified(p)
  \/ EvAcquire
  \/ OnCreatedCheck
  \/ OnModifiedCheck
  \/ \E t \in Threads : ProcessFile(t)
  \/ ScanStart
  \/ ScanSetAcquire
  \/ ScanSetFlag
  \/ ScanListDir
  \/ ScanListDirRaises
  \/ ScanNextFile
  \/ ScanFileRaises
  \/ ScanChkAcquire
  \/ ScanChk
  \/ ScanFinAcquire
  \/ ScanResetFlag
  \/ ScanEnd

Spec == Init /\ [][Next]_vars

\* the steps of the observer's dispatch thread once an event is delivered
EventStep ==
  \/ EvAcquire
  \/ OnCreatedCheck
  \/ OnModifiedCheck
  \/ ProcessFile("event")

\* the steps of the key-listener thread once ENTER has been read
ScanStep ==
  \/ ProcessFile("scan")
  \/ ScanSetAcquire
  \/ ScanSetFlag
  \/ ScanListDir
  \/ ScanListDirRaises
  \/ ScanNextFile
  \/ ScanFileRaises
  \/ ScanChkAcquire
  \/ ScanChk
  \/ ScanFinAcquire
  \/ ScanResetFlag
  \/ ScanEnd

\* one file, created while the program runs
InitFair ==
  /\ Init
  /\ late = {PA1}

\* both threads keep running, and a thread that waits for a lock that is
\* released again and again gets it at some time; events, ENTER and file
\* creation may or may not happen
SpecFair ==
  /\ InitFair
  /\ [][Next]_vars
  /\ SF_vars(EventStep)
  /\ SF_vars(ScanStep)

\* ------------------------------------------------------------------------
\* Properties
\* ------------------------------------------------------------------------
\* Processed outcomes recorded for p, over both threads
ProcessedOutcomes(p) == procBy[p]["event"] + procBy[p]["scan"]

\* C1: a stable path gets at most one Processed outcome and is copied at
\* most once, however many handle calls (live events, manual scan) overlap.
C1_ExactlyOnce ==
  \A p \in Stable : ProcessedOutcomes(p) <= 1 /\ copies[p] <= 1

\* C2: while a handler's scan-mode flag is true, no dispatch that came from a
\* live event is probing, matching or copying for that handler.
C2_ModesNeverRace ==
  \A h \in Dirs :
     flag[h] => ~(pc["event"] \in Dispatching /\ HandlerOf("event") = h)

C4_ScanSuppressesEvents ==
  /\ pc["event"] \in Dispatching \cup {"pf_lock", "pf_check"} => ~flagSeen
  /\ (pc["event"] = "done" /\ flagSeen) =>
       /\ out["event"] = "scan-in-progress"
       /\ (~known["event"] /\ cur["event"] \in processed[HandlerOf("event")]) =>
            /\ procBy[cur["event"]]["scan"] >= 1
            /\ procBy[cur["event"]]["event"] = 0

C4_Witness ==
  /\ pc["event"] = "done"
  /\ flagSeen
  /\ ~known["event"]
  /\ out["event"] = "scan-in-progress"
  /\ cur["event"] \notin processed[HandlerOf("event")]
  /\ copies[cur["event"]] = 0

\* C5: no rule with a missing or invalid source or destination is in any
\* handler's rule list, and process_file never selects one.
C5_InvalidRulesDropped ==
  /\ \A k \in 1..Len(handlers) :
        \A i \in 1..Len(HandlerRules(handlers[k])) :
           ValidRule(HandlerRules(handlers[k])[i])
  /\ \A t \in Threads : rule[t] # NoRule => ValidRule(rule[t])

\* C6: when no manual scan is running (before one, after one returned, after
\* one ended with an exception) every handler's scan-mode flag is false.
C6_FlagRestored ==
  pc["scan"] \in {"off", "idle", "s_end", "dead"} =>
     \A h \in Dirs : flag[h] = FALSE

C6_Witness ==
  /\ pc["scan"] = "dead"
  /\ sRaised
  /\ \E h \in Dirs : processed[h] # {}
  /\ \A h \in Dirs : flag[h] = FALSE

\* a copy by thread t fails in this step
CopyFails(t) == pc[t] = "pf_copy" /\ pc'[t] = "done" /\ out'[t] = "error"

\* C7: a failing copy leaves ProcessedSet alone and ends only that call: the
\* scan keeps the files it has still to visit and no exception propagates;
\* and a call is rejected as a duplicate only for a path that was copied
\* successfully, so a path whose copy failed can be handled again.
C7_CopyFailureIsolated ==
  /\ [][\A t \in Threads :
          CopyFails(t) =>
            /\ processed' = processed
            /\ sFiles' = sFiles
            /\ sIdx' = sIdx
            /\ sRaised' = sRaised
            /\ \A u \in Threads \ {t} : pc'[u] = pc[u]]_vars
  /\ [](\A t \in Threads :
          (pc[t] = "done" /\ out[t] = "duplicate") => copies[cur[t]] >= 1)

C7_Witness ==
  \E t \in Threads :
     /\ pc[t] = "done"
     /\ out[t] = "processed"
     /\ cur[t] \in copyFailed
     /\ copies[cur[t]] = 1

\* C8: no path ever leaves a handler's ProcessedSet, and every path in it
\* has had a copy complete successfully.
C8_ProcessedMonotone ==
  /\ [][\A h \in Dirs : processed[h] \subseteq processed'[h]]_vars
  /\ [](\A h \in Dirs : \A p \in processed[h] : copies[p] >= 1)

C8_Witness ==
  /\ processed[DirA] = {PA1, PA2}
  /\ nFail = 1

\* two consecutive samples that are equal and positive
HasStablePair(samples) ==
  \E i \in 2..Len(samples) : samples[i] = samples[i - 1] /\ samples[i] > 0

\* C9: the size probe reports ready exactly when two consecutive samples
\* among the at most Retries it took are equal and positive; it is ready on
\* 0,0,100,100 and on 100,200,200, and never on a file that stays at 0.
C9_SizeStability ==
  /\ Len(probe.samples) <= Retries
  /\ (probe.result = "ready") <=> HasStablePair(probe.samples)
  /\ probe.samples = <<0, 0, 100, 100>> => probe.result = "ready"
  /\ probe.samples = <<100, 200, 200>> => probe.result = "ready"
  /\ (\A i \in 1..Len(probe.samples) : probe.samples[i] = 0) =>
       probe.result # "ready"
  /\ (Len(probe.samples) = Retries /\ ~HasStablePair(probe.samples)) =>
       probe.result = "not-ready"

C9_Witness ==
  /\ probe.samples = <<0, 0, 100, 100>>
  /\ probe.result = "ready"

\* C10: two files matching the same rule can be dispatched concurrently,
\* read the same destination file count and write the same name, the second
\* copy replacing the first (C10_Witness); in destinations that start empty
\* a file is overwritten only in that way, by a dispatch whose count another
\* dispatch outdated between line 111 and line 117.
C10_OverwriteOnlyByRace == clobber # "fresh"

C10_Witness ==
  /\ clobber = "raced"
  /\ processed[DirA] = {PA1, PA2}
  /\ copies[PA1] = 1
  /\ copies[PA2] = 1
  /\ nFail = 0
  /\ Cardinality(dest[DestA]) = 1

\* the steps of process_file that touch the file system or run the matcher
Unlocked == {"pf_probe", "pf_match", "pf_count", "pf_copy"}

\* C11: a handler's lock is held only for the membership check, the insert
\* and the reads and writes of the scan-mode flag; no thread holds any lock
\* while it probes, matches, counts or copies.
C11_LockOnlyForBookkeeping ==
  /\ \A h \in Dirs : lock[h] # "free" => pc[lock[h]] \in InLock
  /\ \A t \in Threads :
        pc[t] \in Unlocked => \A h \in Dirs : lock[h] # t

\* one thread copies while the other is inside the lock of the same handler
C11_Witness ==
  /\ pc["event"] = "pf_copy"
  /\ lock[HandlerOf("event")] = "scan"
  /\ pc["scan"] = "pf_add"
  /\ HandlerOf("scan") = HandlerOf("event")

\* the same letter, in either case
SameLetter(a, b) ==
  \/ a = b
  \/ \E i \in 1..Len(Upper) : {a, b} = {Upper[i], Lower[i]}

\* kw occurs in s at some offset, letter case ignored
OccursIgnoringCase(kw, s) ==
  \E off \in 0..(Len(s) - Len(kw)) :
     \A j \in 1..Len(kw) : SameLetter(kw[j], s[off + j])

\* every keyword of r occurs in filename (none missing: an empty list qualifies)
Qualifies(r, filename) ==
  \A k \in 1..Len(r.match_keywords) :
     OccursIgnoringCase(r.match_keywords[k], filename)

\* C12: the matcher returns the first rule, in stored order, all of whose
\* keywords occur in the file name with letter case ignored; a rule without
\* keywords qualifies for every name; it returns none when no rule qualifies.
C12_FirstMatch ==
  LET q == {i \in 1..Len(mt.rules) : Qualifies(mt.rules[i], mt.filename)}
  IN IF q = {}
     THEN mt.result = NoRule
     ELSE \E i \in q : /\ mt.result = mt.rules[i]
                        /\ \A j \in q : i <= j

\* an upper-case name, a first rule that lacks a keyword, a second rule whose
\* two keywords both occur
C12_Witness ==
  /\ mt.filename = <<"X", "y">>
  /\ Len(mt.rules) = 2
  /\ mt.rules[1].match_keywords = << <<"Y">>, <<"x", "x">> >>
  /\ mt.rules[2].match_keywords = << <<"x">>, <<"y">> >>
  /\ mt.result = mt.rules[2]

\* the paths whose names end with .part, .!qb or .crdownload
TempPaths == {PB2, PB3, PB4}

\* C13: a path whose name ends with a temporary suffix is rejected at once:
\* no call for it gets past the suffix check (none polls, matches or
\* copies), every call for it that gets to the check ends as "temp", and
\* the path is never copied nor added to ProcessedSet.
C13_TempRejected ==
  /\ \A t \in Threads :
        cur[t] \in TempPaths =>
          /\ pc[t] \notin Dispatching
          /\ pc[t] = "done" => out[t] \in {"temp", "scan-in-progress"}
  /\ \A p \in TempPaths :
        /\ copies[p] = 0
        /\ p \notin copyFailed
        /\ \A h \in Dirs : p \notin processed[h]

\* both threads have just had a call rejected, for two of the suffixes
C13_Witness ==
  /\ pc["scan"] = "done" /\ out["scan"] = "temp" /\ cur["scan"] = PB4
  /\ pc["event"] = "done" /\ out["event"] = "temp" /\ cur["event"] = PB3

\* the probes have returned: ready, or one of the two not-ready outcomes
ProbeReturned == probe.result \in {"ready", "locked", "not-ready"}

\* C14: the probes of a handle call end: the accessibility check makes at
\* most Retries open attempts and the size check takes at most Retries
\* samples, every iteration uses up one attempt, a loop that has used all its
\* attempts has returned (not ready unless the last sample settled it), and
\* under a scheduler that lets the polling thread run the probes return.
C14_PollingTerminates ==
  /\ [](/\ probe.opens <= Retries
        /\ probe.attempt <= Retries
        /\ Len(probe.samples) = probe.attempt - (IF probe.vanished THEN 1 ELSE 0)
        /\ probe.result = "opening" => probe.opens < Retries
        /\ probe.result = "running" => probe.attempt < Retries
        /\ probe.result = "locked" => probe.opens = Retries /\ probe.attempt = 0
        /\ (probe.attempt = Retries /\ ~HasStablePair(probe.samples)) =>
              probe.result = "not-ready")
  /\ [][/\ probe.result = "opening" =>
             \/ probe'.result = "running"
             \/ probe'.opens = probe.opens + 1
        /\ probe.result = "running" =>
             probe'.attempt = probe.attempt + 1]_vars
  /\ <>ProbeReturned

\* a file that could be opened and whose size changed at each of Retries
\* samples
C14_Witness ==
  /\ probe.attempt = Retries
  /\ probe.result = "not-ready"
  /\ ~probe.vanished
  /\ \A i \in 1..Retries : probe.samples[i] > 0

\* the steps of a handle call made by manual_scan (lines 252-263)
ScanCall == {"s_chk_lock", "s_chk", "pf_lock", "pf_check", "done"}
              \cup Dispatching

\* C15: a handle call made by the manual scan runs while the scan-mode flag
\* of its handler is true and is not stopped by it: it never ends as
\* scan-in-progress, and for a stable file that was not in ProcessedSet when
\* the call began and that a rule matches, it ends Processed with the path
\* in ProcessedSet, unless the path was added meanwhile (duplicate) or the
\* copy did not succeed (error).
C15_ScanDispatchNotBlocked ==
  LET h == HandlerOf("scan")
      p == cur["scan"]
  IN /\ out["scan"] # "scan-in-progress"
     /\ pc["scan"] \in ScanCall => flag[h]
     /\ ( /\ pc["scan"] = "done"
          /\ ~known["scan"]
          /\ p \in Stable
          /\ find_matching_rule(p.name, HandlerRules(h)) # NoRule
          /\ out["scan"] \notin {"duplicate", "error"} )
        => /\ out["scan"] = "processed"
           /\ p \in processed[h]
           /\ procBy[p]["scan"] >= 1

C15_Witness ==
  /\ pc["scan"] = "done"
  /\ out["scan"] = "processed"
  /\ ~known["scan"]
  /\ flag[HandlerOf("scan")]
  /\ cur["scan"] = PA1
  /\ procBy[PA1]["event"] = 0
  /\ copies[PA1] = 1

\* C16: a live event dropped because of a scan is not queued or retried: a
\* path that only dropped events have named (no handler read the flag as
\* false for it, no scan had it in an enumeration it went through) is not
\* being probed, matched or copied by any thread, has never been copied and
\* is in no ProcessedSet.
C16_DroppedNotRetried ==
  \A p \in Paths :
     named[p] = "dropped" =>
       /\ \A t \in Threads : cur[t] = p => pc[t] \notin Dispatching \cup {"pf_lock", "pf_check"}
       /\ copies[p] = 0
       /\ p \notin copyFailed
       /\ \A h \in Dirs : p \notin processed[h]

\* the file was created after the scan had listed its directory, its event
\* was dropped, the scan has returned and both threads are idle: the file
\* stays in the source directory, unprocessed
C16_Witness ==
  /\ PA1 \in files
  /\ named[PA1] = "dropped"
  /\ pc["scan"] = "idle"
  /\ pc["event"] = "idle"
  /\ \A h \in Dirs : ~flag[h]
  /\ PA1 \notin processed[DirA]
  /\ dest[DestA] = {}

RECURSIVE SumProcessed(_)
\* Processed outcomes recorded for the paths in S
SumProcessed(S) ==
  IF S = {} THEN 0
  ELSE LET p == CHOOSE q \in S : TRUE
       IN ProcessedOutcomes(p) + SumProcessed(S \ {p})

\* Processed outcomes of handler h so far
NProcessed(h) == SumProcessed({p \in Paths : p.dir = h})

\* C17: while the process_file calls of a handler have run one at a time,
\* no copy has failed and the rule's format has the episode field (the
\* destinations start empty), the k-th call that ends Processed got episode
\* number k, the name it copies to is not in the destination yet, and after
\* its copy the destination holds k files.
C17_SequentialEpisodes ==
  \A t \in Threads :
     LET h == HandlerOf(t)
     IN ( /\ h \notin overlapped
          /\ nFail = 0
          /\ rule[t] # NoRule
          /\ rule[t].rename_format.episode )
        => /\ pc[t] = "pf_copy" =>
                /\ newName[t].episode = NProcessed(h) + 1
                /\ newName[t] \notin dest[rule[t].destination]
           /\ pc[t] \in {"pf_add_lock", "pf_add"} =>
                /\ newName[t].episode = NProcessed(h) + 1
                /\ Cardinality(dest[rule[t].destination]) = NProcessed(h) + 1

\* the second of two calls that did not overlap has copied, with episode 2
C17_Witness ==
  \E t \in Threads :
     /\ pc[t] = "pf_add"
     /\ HandlerOf(t) \notin overlapped
     /\ nFail = 0
     /\ newName[t].episode = 2
     /\ NProcessed(DirA) = 1
     /\ Cardinality(dest[DestA]) = 2

\* the steps of manual_scan's try block (lines 235-265)
Enumerating == {"s_dir", "s_file"} \cup ScanCall

\* C18: at most one manual scan runs at a time (ENTER is not read again
\* before manual_scan has returned), and from the first directory listing
\* until the last file has been handled the scan-mode flag of every handler
\* is true, not only that of the handler whose directory is being scanned.
C18_FlagsDuringScan ==
  /\ pc["scan"] # "idle" => ~ENABLED ScanStart
  /\ pc["scan"] \in Enumerating =>
       \A k \in 1..Len(handlers) : flag[handlers[k]]

\* the scan copies a file of the first directory; the flag of the other
\* handler is true as well
C18_Witness ==
  /\ pc["scan"] = "pf_copy"
  /\ HandlerOf("scan") = DirA
  /\ Len(handlers) = 2
  /\ flag[DirA]
  /\ flag[DirB]

\* the steps at which a thread waits for a handler's lock
Requesting == {"ev_lock", "pf_lock", "pf_add_lock",
               "s_set_lock", "s_chk_lock", "s_fin_lock"}

\* C19: the two threads never deadlock: a thread that requests a lock holds
\* no lock, a lock is held only inside a `with` block, which the holder
\* leaves at its next step on every path, and every request is granted.
C19_NoDeadlock ==
  /\ [](\A t \in Threads :
          pc[t] \in Requesting => \A h \in Dirs : lock[h] # t)
  /\ [](\A h \in Dirs : lock[h] # "free" => pc[lock[h]] \in InLock)
  /\ [](\A t \in Threads :
          Cardinality({h \in Dirs : lock[h] = t}) <= 1)
  /\ \A t \in Threads :
        (pc[t] \in Requesting) ~> (pc[t] \in InLock)

\* the event thread waits for the lock the scan thread holds
C19_Witness ==
  /\ pc["event"] = "pf_lock"
  /\ pc["scan"] = "pf_add"
  /\ lock[HandlerOf("event")] = "scan"

\* the steps of a handle call up to the matcher: a call that ends at the
\* duplicate check, the suffix check, a probe or the matcher takes no other
EarlySteps == {"pf_lock", "pf_check", "pf_probe", "pf_match",
               "s_chk_lock", "s_chk"}

\* the outcomes of a call that ends at one of them
EarlyOutcomes == {"duplicate", "temp", "locked", "not-ready", "no-rule"}

\* thread t takes a step of EarlySteps
EarlyStep(t) == pc[t] \in EarlySteps /\ pc'[t] # pc[t]

\* C20: a handle call that ends at the duplicate check, the temporary-suffix
\* check, a probe failure or a no-match changes nothing: none of its steps
\* changes a ProcessedSet, a scan-mode flag or the files of a destination
\* directory, and it ends with its path in ProcessedSet only if the path was
\* there already or another call added it.
C20_EarlyExitFrame ==
  /\ [][\A t \in Threads :
          EarlyStep(t) =>
            /\ processed' = processed
            /\ flag' = flag
            /\ dest' = dest]_vars
  /\ [](\A t \in Threads :
          (pc[t] = "done" /\ out[t] \in EarlyOutcomes
             /\ cur[t] \in processed[HandlerOf(t)]) =>
            ProcessedOutcomes(cur[t]) >= 1)

\* a scan's call for a file no rule matches has ended; nothing was added or
\* copied
C20_Witness ==
  /\ pc["scan"] = "done"
  /\ out["scan"] = "no-rule"
  /\ cur["scan"] = PA3
  /\ processed[DirA] = {}
  /\ dest[DestA] = {}
  /\ flag[DirA]

====
